---------------------------- MODULE Spec2Model ----------------------------
(***************************************************************************)
(* Bark-Proxy (src/src/index.ts): a webhook relay.  Rules are kept in a    *)
(* key-value store; POST /push looks a rule up, renders its templates      *)
(* against the payload and issues one outbound HTTP GET.                   *)
(*                                                                         *)
(* Text is modelled as a sequence of one-character strings, so that the    *)
(* regular expressions, split() and includes() of the source are computed  *)
(* character by character.  A JavaScript value is a record with a type tag *)
(* t; an exception is the completion value Throw.                          *)
(***************************************************************************)
EXTENDS Integers, Sequences, FiniteSets, TLC

VARIABLES
    store,      \* RULES_STORE: key -> stored rule, or Null
    req,        \* the requests being served: slot -> handler position and locals
    path,       \* SpecPath: the path handed to getValueByPath
    obj,        \* SpecPath: the value it is resolved against
    resolved,   \* SpecPath: [done, v], the value getValueByPath returned
    expression, \* SpecEval: the text handed to evaluateExpression
    data,       \* SpecEval: the data context
    evaluated,  \* SpecEval: [done, v], the value evaluateExpression returned
    log         \* SpecRace: per key, the requests answered 'Rule saved
                \* successfully' and 'Rule deleted successfully' so far

vars == <<store, req, path, obj, resolved, expression, data, evaluated, log>>

-----------------------------------------------------------------------------
(* Bounds of the model.                                                    *)

\* the paths of SpecPath have at most this many segments
MaxSegs == 3

-----------------------------------------------------------------------------
(* Characters.                                                             *)

Digits == {"0","1","2","3","4","5","6","7","8","9"}

\* \w of a JavaScript regular expression
WordChars ==
    {"a","b","c","d","e","f","g","h","i","j","k","l","m",
     "n","o","p","q","r","s","t","u","v","w","x","y","z",
     "A","B","C","D","E","F","G","H","I","J","K","L","M",
     "N","O","P","Q","R","S","T","U","V","W","X","Y","Z"}
        \cup Digits \cup {"_"}

\* \s (the members that occur in the model's texts)
SpaceChars == {" ", "\t", "\n", "\r"}

\* what . does not match
LineTerminators == {"\n", "\r"}

\* the printable ASCII characters in code order, from code 32 (the grave
\* accent, code 96, which no text of the model holds, is a placeholder)
Ascii ==
    <<" ","!","\"","#","$","%","&","'","(",")","*","+",",","-",".","/",
      "0","1","2","3","4","5","6","7","8","9",":",";","<","=",">","?",
      "@","A","B","C","D","E","F","G","H","I","J","K","L","M","N","O",
      "P","Q","R","S","T","U","V","W","X","Y","Z","[","\\","]","^","_",
      "GRAVE","a","b","c","d","e","f","g","h","i","j","k","l","m","n","o",
      "p","q","r","s","t","u","v","w","x","y","z","{","|","}","~">>

\* the UTF-16 code unit of a character
CodeOf(c) ==
    IF c = "\t" THEN 9
    ELSE IF c = "\n" THEN 10
    ELSE IF c = "\r" THEN 13
    ELSE 31 + (CHOOSE i \in 1..Len(Ascii) : Ascii[i] = c)

DigitVal(c) == CodeOf(c) - 48

DigitChar(k) == Ascii[17 + k]

-----------------------------------------------------------------------------
(* Text operations of the JavaScript String type.                          *)

AllIn(s, S) == \A i \in 1..Len(s) : s[i] \in S

\* s.substring(i-1, j): the characters i..j of s
Sub(s, i, j) == SubSeq(s, i, j)

\* s.startsWith(p, i-1)
StartsAt(s, p, i) ==
    /\ i + Len(p) - 1 <= Len(s)
    /\ \A k \in 1..Len(p) : s[i + k - 1] = p[k]

\* s.includes(p)
Includes(s, p) == \E i \in 1..(Len(s) + 1) : StartsAt(s, p, i)

\* s.indexOf(p, from-1) + 1, or 0
RECURSIVE IndexFrom(_, _, _)
IndexFrom(s, p, from) ==
    IF from + Len(p) - 1 > Len(s) THEN 0
    ELSE IF StartsAt(s, p, from) THEN from
    ELSE IndexFrom(s, p, from + 1)

\* s.split(sep) for a non-empty separator
RECURSIVE Split(_, _)
Split(s, sep) ==
    LET i == IndexFrom(s, sep, 1)
    IN  IF i = 0 THEN <<s>>
        ELSE <<Sub(s, 1, i - 1)>> \o Split(Sub(s, i + Len(sep), Len(s)), sep)

\* s.trim()
RECURSIVE TrimLeft(_)
TrimLeft(s) ==
    IF s # <<>> /\ Head(s) \in SpaceChars THEN TrimLeft(Tail(s)) ELSE s

RECURSIVE TrimRight(_)
TrimRight(s) ==
    IF s # <<>> /\ s[Len(s)] \in SpaceChars
    THEN TrimRight(Sub(s, 1, Len(s) - 1))
    ELSE s

Trim(s) == TrimRight(TrimLeft(s))

\* segs.join(sep)
RECURSIVE Join(_, _)
Join(segs, sep) ==
    IF segs = <<>> THEN <<>>
    ELSE IF Len(segs) = 1 THEN segs[1]
    ELSE segs[1] \o sep \o Join(Tail(segs), sep)

\* the decimal text of a natural number
RECURSIVE NatText(_)
NatText(k) ==
    IF k < 10 THEN <<DigitChar(k)>>
    ELSE NatText(k \div 10) \o <<DigitChar(k % 10)>>

\* the natural number a text of digits denotes
RECURSIVE DigitsVal(_)
DigitsVal(s) ==
    IF s = <<>> THEN 0
    ELSE 10 * DigitsVal(Sub(s, 1, Len(s) - 1)) + DigitVal(s[Len(s)])

RECURSIVE Pow10(_)
Pow10(k) == IF k = 0 THEN 1 ELSE 10 * Pow10(k - 1)

-----------------------------------------------------------------------------
(* JavaScript values.  A number is n / 10^d; an object or array holds its  *)
(* own properties as the set f of <<key, value>> pairs (an array's keys    *)
(* are its indices).                                                       *)

Val(t, b, n, d, s, f) == [t |-> t, b |-> b, n |-> n, d |-> d, s |-> s, f |-> f]

Undefined == Val("undefined", FALSE, 0, 0, <<>>, {})
Null      == Val("null", FALSE, 0, 0, <<>>, {})
NaN       == Val("nan", FALSE, 0, 0, <<>>, {})
Function  == Val("function", FALSE, 0, 0, <<>>, {})
\* the completion of a call that raised
Throw     == Val("throw", FALSE, 0, 0, <<>>, {})
Bool(b)   == Val("boolean", b, 0, 0, <<>>, {})
Num(n)    == Val("number", FALSE, n, 0, <<>>, {})
Dec(n, d) == Val("number", FALSE, n, d, <<>>, {})
Str(s)    == Val("string", FALSE, 0, 0, s, {})
Obj(f)    == Val("object", FALSE, 0, 0, <<>>, f)
Arr(f)    == Val("array", FALSE, 0, 0, <<>>, f)

\* the result of a function applied once: none yet, or the value v
NotDone == [done |-> FALSE, v |-> Undefined]

Done(v) == [done |-> TRUE, v |-> v]

\* typeof v === 'object'
TypeofObject(v) == v.t \in {"object", "array", "null"}

\* the truthiness of a value (ToBoolean)
Truthy(v) ==
    CASE v.t \in {"undefined", "null", "nan"} -> FALSE
      [] v.t = "boolean" -> v.b
      [] v.t = "number"  -> v.n # 0
      [] v.t = "string"  -> v.s # <<>>
      [] OTHER -> TRUE

\* the property names the model uses
Key ==
    [
      toString |-> <<"t","o","S","t","r","i","n","g">>,
      id |-> <<"i","d">>,
      name |-> <<"n","a","m","e">>,
      mapping |-> <<"m","a","p","p","i","n","g">>,
      barkUrl |-> <<"b","a","r","k","U","r","l">>,
      title |-> <<"t","i","t","l","e">>,
      body |-> <<"b","o","d","y">>,
      group |-> <<"g","r","o","u","p">>,
      icon |-> <<"i","c","o","n">>,
      url |-> <<"u","r","l">>,
      sound |-> <<"s","o","u","n","d">>,
      ruleId |-> <<"r","u","l","e","I","d">>,
      payload |-> <<"p","a","y","l","o","a","d">>,
      a |-> <<"a">>,
      b |-> <<"b">>,
      zero |-> <<"0">>,
      proto |-> <<"_","_","p","r","o","t","o","_","_">>,
      constructor |-> <<"c","o","n","s","t","r","u","c","t","o","r">>,
      prototype |-> <<"p","r","o","t","o","t","y","p","e">>,
      n |-> <<"n">>,
      flag |-> <<"f","l","a","g">>,
      build |-> <<"b","u","i","l","d">>,
      status |-> <<"s","t","a","t","u","s">>,
      o |-> <<"o">>,
      ten |-> <<"1","0">> ]

\* texts the model uses
Text ==
    [
      ok |-> <<"o","k">>,
      SUCCESS |-> <<"S","U","C","C","E","S","S">>,
      r1 |-> <<"r","1">>,
      r2 |-> <<"r","2">>,
      zz |-> <<"z","z">>,
      B |-> <<"B">>,
      T |-> <<"T">> ]

\* the property names every object inherits from Object.prototype
ObjectPrototypeKeys ==
    { <<"c","o","n","s","t","r","u","c","t","o","r">>,
      <<"_","_","p","r","o","t","o","_","_">>,
      <<"t","o","S","t","r","i","n","g">>,
      <<"h","a","s","O","w","n","P","r","o","p","e","r","t","y">>,
      <<"v","a","l","u","e","O","f">> }

LengthKey == <<"l","e","n","g","t","h">>

\* Object.prototype.hasOwnProperty.call(o, key), o an object or array
HasOwn(o, key) ==
    \/ \E p \in o.f : p[1] = key
    \/ o.t = "array" /\ key = LengthKey

\* o[key]: the own property, else what the prototype chain gives
GetProp(o, key) ==
    IF \E p \in o.f : p[1] = key
    THEN (CHOOSE p \in o.f : p[1] = key)[2]
    ELSE IF o.t = "array" /\ key = LengthKey THEN Num(Cardinality(o.f))
    ELSE IF o.t = "string" /\ key = LengthKey THEN Num(Len(o.s))
    ELSE IF key = <<"_","_","p","r","o","t","o","_","_">> THEN Obj({})
    ELSE IF key \in ObjectPrototypeKeys THEN Function
    ELSE Undefined

-----------------------------------------------------------------------------
(* getValueByPath.                                                         *)

ForbiddenKeys ==
    { <<"_","_","p","r","o","t","o","_","_">>,
      <<"c","o","n","s","t","r","u","c","t","o","r">>,
      <<"p","r","o","t","o","t","y","p","e">> }

\* /^[a-zA-Z0-9_.]+$/.test(s), which is also /^[\w.]+$/.test(s)
IsPathText(s) == s # <<>> /\ AllIn(s, WordChars \cup {"."})

\* the callback without its guards: any defined o[key], inherited or own
PathStepUnguarded(o, key) ==
    IF Truthy(o) /\ GetProp(o, key) # Undefined THEN GetProp(o, key) ELSE Undefined

\* the callback of keys.reduce
PathStep(o, key) ==
    IF key = <<>> \/ key \in ForbiddenKeys THEN Undefined
    ELSE IF Truthy(o) /\ TypeofObject(o) /\ HasOwn(o, key) THEN GetProp(o, key)
    ELSE Undefined

RECURSIVE PathReduce(_, _)
PathReduce(o, keys) ==
    IF keys = <<>> THEN o ELSE PathReduce(PathStep(o, Head(keys)), Tail(keys))

\* getValueByPath(o, p): o and p are values (p is a string in every call
\* of the source; the guard is for the others)
getValueByPath(o, p) ==
    IF ~Truthy(o) \/ ~TypeofObject(o) \/ ~Truthy(p) \/ p.t # "string"
    THEN Undefined
    ELSE IF ~IsPathText(p.s) THEN Undefined
    ELSE PathReduce(o, Split(p.s, <<".">>))

-----------------------------------------------------------------------------
(* The conversions and operators of JavaScript that evaluateExpression and *)
(* replaceTemplateVars apply to values.                                    *)

\* a number with the trailing zeros of its fraction dropped
RECURSIVE Normal(_, _)
Normal(n, d) ==
    IF d > 0 /\ n % 10 = 0 THEN Normal(n \div 10, d - 1) ELSE Dec(n, d)

\* the text of digits k, padded on the left with zeros to w characters
RECURSIVE Padded(_, _)
Padded(k, w) ==
    IF Len(NatText(k)) >= w THEN NatText(k)
    ELSE <<"0">> \o Padded(k, w - 1)

\* Number.prototype.toString() of n / 10^d
NumberText(v) ==
    LET m == IF v.n < 0 THEN -v.n ELSE v.n
        sign == IF v.n < 0 THEN <<"-">> ELSE <<>>
    IN  IF v.d = 0 THEN sign \o NatText(m)
        ELSE sign \o NatText(m \div Pow10(v.d)) \o <<".">>
                  \o Padded(m % Pow10(v.d), v.d)

\* /^\d+$/
IsDigits(s) == s # <<>> /\ AllIn(s, Digits)

\* an unsigned decimal literal: digits, digits.digits, digits. or .digits
IsUnsignedDecimal(s) ==
    \/ IsDigits(s)
    \/ \E i \in 1..Len(s) :
        /\ s[i] = "."
        /\ AllIn(Sub(s, 1, i - 1), Digits)
        /\ AllIn(Sub(s, i + 1, Len(s)), Digits)
        /\ Len(s) > 1

UnsignedDecimal(s) ==
    IF IsDigits(s) THEN Num(DigitsVal(s))
    ELSE LET i == CHOOSE k \in 1..Len(s) : s[k] = "."
         IN  Normal(DigitsVal(Sub(s, 1, i - 1)) * Pow10(Len(s) - i)
                        + DigitsVal(Sub(s, i + 1, Len(s))),
                    Len(s) - i)

\* v, or -v
Signed(v, minus) == IF minus THEN Dec(-v.n, v.d) ELSE v

\* Number(s) of a text: the decimal literals with an optional sign; the
\* empty text is 0; anything else is NaN (the model's texts hold no
\* exponent, hexadecimal or Infinity literal)
StringToNumber(s) ==
    LET t == Trim(s)
        signed == t # <<>> /\ t[1] \in {"-", "+"}
        body == IF signed THEN Tail(t) ELSE t
    IN  IF t = <<>> THEN Num(0)
        ELSE IF ~IsUnsignedDecimal(body) THEN NaN
        ELSE Signed(UnsignedDecimal(body), signed /\ t[1] = "-")

ObjectText == <<"[","o","b","j","e","c","t"," ","O","b","j","e","c","t","]">>

\* String(v).  An object with an own (hence not callable) property
\* "toString" cannot be converted: TypeError.  An array is the join of its
\* elements, null and undefined elements giving the empty text.
RECURSIVE ToStringJS(_)
RECURSIVE JoinElements(_, _)
JoinElements(a, i) ==
    IF i >= Cardinality(a.f) THEN Str(<<>>)
    ELSE LET e == GetProp(a, NatText(i))
             head == IF e.t \in {"null", "undefined"} THEN Str(<<>>) ELSE ToStringJS(e)
             rest == JoinElements(a, i + 1)
         IN  IF head = Throw \/ rest = Throw THEN Throw
             ELSE IF i + 1 >= Cardinality(a.f) THEN head
             ELSE Str(head.s \o <<",">> \o rest.s)

ToStringJS(v) ==
    CASE v.t = "undefined" -> Str(<<"u","n","d","e","f","i","n","e","d">>)
      [] v.t = "null"      -> Str(<<"n","u","l","l">>)
      [] v.t = "nan"       -> Str(<<"N","a","N">>)
      [] v.t = "boolean"   -> IF v.b THEN Str(<<"t","r","u","e">>)
                                     ELSE Str(<<"f","a","l","s","e">>)
      [] v.t = "number"    -> Str(NumberText(v))
      [] v.t = "string"    -> v
      [] v.t = "object"    -> IF HasOwn(v, Key.toString) THEN Throw ELSE Str(ObjectText)
      [] v.t = "array"     -> JoinElements(v, 0)
      [] v.t = "function"  -> Str(<<"f","u","n","c","t","i","o","n">>)
      [] OTHER             -> Throw

\* ToPrimitive(v): an object or array becomes its text
ToPrimitive(v) ==
    IF v.t \in {"object", "array", "function"} THEN ToStringJS(v) ELSE v

\* ToNumber(v) of a primitive
ToNumber(v) ==
    CASE v.t = "undefined" -> NaN
      [] v.t = "null"      -> Num(0)
      [] v.t = "boolean"   -> IF v.b THEN Num(1) ELSE Num(0)
      [] v.t = "string"    -> StringToNumber(v.s)
      [] OTHER             -> v

\* a < b of two numbers
NumLess(a, b) == a.n * Pow10(b.d) < b.n * Pow10(a.d)

\* a < b of two texts: by code units
RECURSIVE TextLess(_, _)
TextLess(a, b) ==
    IF b = <<>> THEN FALSE
    ELSE IF a = <<>> THEN TRUE
    ELSE IF Head(a) # Head(b) THEN CodeOf(Head(a)) < CodeOf(Head(b))
    ELSE TextLess(Tail(a), Tail(b))

\* the abstract relational comparison a < b: Bool(..), Undefined when a
\* NaN is involved, Throw when a conversion raises
NumbersLess(na, nb) ==
    IF na = NaN \/ nb = NaN THEN Undefined ELSE Bool(NumLess(na, nb))

PrimitivesLess(pa, pb) ==
    IF pa = Throw \/ pb = Throw THEN Throw
    ELSE IF pa.t = "string" /\ pb.t = "string" THEN Bool(TextLess(pa.s, pb.s))
    ELSE NumbersLess(ToNumber(pa), ToNumber(pb))

Less(a, b) == PrimitivesLess(ToPrimitive(a), ToPrimitive(b))

\* a === b; same tells whether two objects are one object
StrictEquals(a, b, same) ==
    IF a.t \in {"object", "array", "function"} \/ b.t \in {"object", "array", "function"}
    THEN Bool(a.t = b.t /\ same)
    ELSE Bool(a.t # "nan" /\ a = b)

\* a == b
NumbersEqual(na, nb) == Bool(na # NaN /\ na = nb)

\* a == b of values of different types, pa and pb their primitives
MixedEquals(a, b, pa, pb) ==
    LET nullish == {"null", "undefined"}
    IN  IF a.t \in nullish \/ b.t \in nullish
        THEN Bool(a.t \in nullish /\ b.t \in nullish)
        ELSE IF pa = Throw \/ pb = Throw THEN Throw
        ELSE IF pa.t = "string" /\ pb.t = "string" THEN Bool(pa = pb)
        ELSE NumbersEqual(ToNumber(pa), ToNumber(pb))

LooseEquals(a, b, same) ==
    LET objects == {"object", "array", "function"}
    IN  IF a.t = b.t \/ (a.t \in objects /\ b.t \in objects)
        THEN StrictEquals(a, b, same)
        ELSE MixedEquals(a, b, ToPrimitive(a), ToPrimitive(b))

Not(v) == IF v = Throw THEN Throw ELSE Bool(~Truthy(v))

-----------------------------------------------------------------------------
(* evaluateExpression.  The regular expression                             *)
(*     /^\s*(.+?)\s*\?\s*(.+?)\s*:\s*(.+?)\s*$/                            *)
(* is matched as the backtracking matcher of JavaScript matches it: a      *)
(* greedy \s* tries its longest run first, a lazy (.+?) its shortest text  *)
(* first, and the first way through that reaches the end is the match.     *)

NoMatch == [ok |-> FALSE, g1 |-> <<>>, g2 |-> <<>>, g3 |-> <<>>]

\* the length of the run of white space of s that starts at position i
RECURSIVE SpaceRun(_, _)
SpaceRun(s, i) ==
    IF i <= Len(s) /\ s[i] \in SpaceChars THEN 1 + SpaceRun(s, i + 1) ELSE 0

\* (.+?)\s*$ from position i, the group tried with len characters and more
RECURSIVE MatchFalseExpr(_, _, _)
MatchFalseExpr(s, i, len) ==
    IF i + len - 1 > Len(s) \/ s[i + len - 1] \in LineTerminators THEN NoMatch
    ELSE IF AllIn(Sub(s, i + len, Len(s)), SpaceChars)
         THEN [NoMatch EXCEPT !.ok = TRUE, !.g3 = Sub(s, i, i + len - 1)]
         ELSE MatchFalseExpr(s, i, len + 1)

\* \s*(.+?)\s*$ from position i, the white space tried with k characters and fewer
RECURSIVE MatchAfterColon(_, _, _)
MatchAfterColon(s, i, k) ==
    LET r == MatchFalseExpr(s, i + k, 1)
    IN  IF r.ok THEN r
        ELSE IF k = 0 THEN NoMatch
        ELSE MatchAfterColon(s, i, k - 1)

\* \s*:\s*(.+?)\s*$ from position i
RECURSIVE MatchColon(_, _, _)
MatchColon(s, i, k) ==
    LET r == IF i + k <= Len(s) /\ s[i + k] = ":"
             THEN MatchAfterColon(s, i + k + 1, SpaceRun(s, i + k + 1))
             ELSE NoMatch
    IN  IF r.ok THEN r
        ELSE IF k = 0 THEN NoMatch
        ELSE MatchColon(s, i, k - 1)

\* (.+?)\s*:\s*(.+?)\s*$ from position i
RECURSIVE MatchTrueExpr(_, _, _)
MatchTrueExpr(s, i, len) ==
    IF i + len - 1 > Len(s) \/ s[i + len - 1] \in LineTerminators THEN NoMatch
    ELSE LET r == MatchColon(s, i + len, SpaceRun(s, i + len))
         IN  IF r.ok THEN [r EXCEPT !.g2 = Sub(s, i, i + len - 1)]
             ELSE MatchTrueExpr(s, i, len + 1)

\* \s*(.+?)\s*:\s*(.+?)\s*$ from position i
RECURSIVE MatchAfterQuestion(_, _, _)
MatchAfterQuestion(s, i, k) ==
    LET r == MatchTrueExpr(s, i + k, 1)
    IN  IF r.ok THEN r
        ELSE IF k = 0 THEN NoMatch
        ELSE MatchAfterQuestion(s, i, k - 1)

\* \s*\?\s*(.+?)\s*:\s*(.+?)\s*$ from position i
RECURSIVE MatchQuestion(_, _, _)
MatchQuestion(s, i, k) ==
    LET r == IF i + k <= Len(s) /\ s[i + k] = "?"
             THEN MatchAfterQuestion(s, i + k + 1, SpaceRun(s, i + k + 1))
             ELSE NoMatch
    IN  IF r.ok THEN r
        ELSE IF k = 0 THEN NoMatch
        ELSE MatchQuestion(s, i, k - 1)

\* (.+?)\s*\?\s*(.+?)\s*:\s*(.+?)\s*$ from position i
RECURSIVE MatchCondition(_, _, _)
MatchCondition(s, i, len) ==
    IF i + len - 1 > Len(s) \/ s[i + len - 1] \in LineTerminators THEN NoMatch
    ELSE LET r == MatchQuestion(s, i + len, SpaceRun(s, i + len))
         IN  IF r.ok THEN [r EXCEPT !.g1 = Sub(s, i, i + len - 1)]
             ELSE MatchCondition(s, i, len + 1)

\* the whole expression, the leading white space tried with k characters and fewer
RECURSIVE MatchLeading(_, _)
MatchLeading(s, k) ==
    LET r == MatchCondition(s, k + 1, 1)
    IN  IF r.ok THEN r
        ELSE IF k = 0 THEN NoMatch
        ELSE MatchLeading(s, k - 1)

\* expression.match(/^\s*(.+?)\s*\?\s*(.+?)\s*:\s*(.+?)\s*$/)
ternaryMatch(s) == MatchLeading(s, SpaceRun(s, 1))

\* /^['"](.*)['"]$/.test(s)
IsQuoted(s) ==
    /\ Len(s) >= 2
    /\ s[1] \in {"'", "\""}
    /\ s[Len(s)] \in {"'", "\""}
    /\ \A i \in 2..(Len(s) - 1) : s[i] \notin LineTerminators

\* s.substring(1, s.length - 1)
Unquoted(s) == Sub(s, 2, Len(s) - 1)

\* /^-?\d+(\.\d+)?$/.test(s)
IsNumberLiteral(s) ==
    LET body == IF s # <<>> /\ s[1] = "-" THEN Tail(s) ELSE s
    IN  \/ IsDigits(body)
        \/ \E i \in 2..(Len(body) - 1) :
            /\ body[i] = "."
            /\ IsDigits(Sub(body, 1, i - 1))
            /\ IsDigits(Sub(body, i + 1, Len(body)))

\* the callback of condition.split(op).map: one operand of the condition
Operand(text, d) ==
    LET part == Trim(text)
    IN  IF IsPathText(part) THEN getValueByPath(d, Str(part))
        ELSE IF IsQuoted(part) THEN Str(Unquoted(part))
        ELSE IF IsNumberLiteral(part) THEN StringToNumber(part)
        ELSE IF part = <<"t","r","u","e">> THEN Bool(TRUE)
        ELSE IF part = <<"f","a","l","s","e">> THEN Bool(FALSE)
        ELSE Str(part)

\* the operators, in the order Object.entries(operators) yields them
operators ==
    << <<"=","=","=">>, <<"!","=","=">>, <<"=","=">>, <<"!","=">>,
       <<">">>, <<"<">>, <<">","=">>, <<"<","=">>, <<"&","&">>, <<"|","|">> >>

\* operators[op](a, b)
\* v, or !v
Negated(v, negate) == IF negate THEN Not(v) ELSE v

\* x < y and x >= y from the comparison less of x with y: an undefined
\* comparison (a NaN) makes both false
Ordered(less, negate) ==
    IF less = Undefined THEN Bool(FALSE) ELSE Negated(less, negate)

Apply(op, a, b, same) ==
    CASE op \in {<<"=","=","=">>, <<"!","=","=">>} ->
            Negated(StrictEquals(a, b, same), op = <<"!","=","=">>)
      [] op \in {<<"=","=">>, <<"!","=">>} ->
            Negated(LooseEquals(a, b, same), op = <<"!","=">>)
      [] op \in {<<">">>, <<"<">>, <<">","=">>, <<"<","=">>} ->
            \* a > b is b < a, a >= b is !(a < b), a <= b is !(b < a)
            Ordered(Less(IF op \in {<<">">>, <<"<","=">>} THEN b ELSE a,
                         IF op \in {<<">">>, <<"<","=">>} THEN a ELSE b),
                    op \in {<<">","=">>, <<"<","=">>})
      [] op = <<"&","&">> -> IF Truthy(a) THEN b ELSE a
      [] op = <<"|","|">> -> IF Truthy(a) THEN a ELSE b

\* the index in ops of the first operator the condition includes, or 0
RECURSIVE FirstOperator(_, _, _)
FirstOperator(condition, ops, i) ==
    IF i > Len(ops) THEN 0
    ELSE IF Includes(condition, ops[i]) THEN i
    ELSE FirstOperator(condition, ops, i + 1)

\* conditionResult: the loop over the operators
\* func(left, right) of the operator op found in the condition; two
\* operands are one object when they are the same path
SplitAndApply(op, parts, d) ==
    Apply(op, Operand(parts[1], d), Operand(parts[2], d), Trim(parts[1]) = Trim(parts[2]))

SplitOn(condition, op, d) == SplitAndApply(op, Split(condition, op), d)

WithOperator(condition, i, d) ==
    IF i = 0 THEN Bool(FALSE) ELSE SplitOn(condition, operators[i], d)

ConditionResult(condition, d) ==
    WithOperator(condition, FirstOperator(condition, operators, 1), d)

\* the value of the branch the condition selects
Branch(text, d) ==
    IF IsQuoted(text) THEN Str(Unquoted(text))
    ELSE getValueByPath(d, Str(Trim(text)))

\* evaluateExpression(e, d); what the try block raises is caught and ""
Selected(m, c, d) ==
    IF c = Throw THEN Str(<<>>)
    ELSE Branch(IF Truthy(c) THEN m.g2 ELSE m.g3, d)

Matched(e, m, d) ==
    IF ~m.ok THEN getValueByPath(d, Str(Trim(e)))
    ELSE Selected(m, ConditionResult(m.g1, d), d)

evaluateExpression(e, d) == Matched(e, ternaryMatch(e), d)

-----------------------------------------------------------------------------
(* replaceTemplateVars and sendToBark.                                     *)

\* v.key of a member expression: TypeError on undefined and null
Member(v, key) ==
    IF v.t \in {"undefined", "null", "throw"} THEN Throw ELSE GetProp(v, key)

\* the position of the first "}" of s at or after i, or 0
RECURSIVE ClosingBrace(_, _)
ClosingBrace(s, i) ==
    IF i > Len(s) THEN 0
    ELSE IF s[i] = "}" THEN i
    ELSE ClosingBrace(s, i + 1)

\* the replacer callback: the text that stands for ${body}
\* a path: value !== undefined ? String(value) : ''; an expression:
\* String(value || '')
Substituted(v, simple) ==
    IF (simple /\ v # Undefined) \/ (~simple /\ Truthy(v)) THEN ToStringJS(v)
    ELSE Str(<<>>)

Substitute(body, d) ==
    Substituted(IF IsPathText(body) THEN getValueByPath(d, Str(body))
                ELSE evaluateExpression(body, d),
                IsPathText(body))

\* s.replace(/\${([^}]+)}/g, callback) from position i on
RECURSIVE ReplaceFrom(_, _, _)
Appended(head, rest) ==
    IF head = Throw \/ rest = Throw THEN Throw ELSE Str(head.s \o rest.s)

\* j: the position of the "}" that closes a "${" at i, 0 when position i
\* starts no match
ReplaceAt(s, i, j, d) ==
    Appended(IF j > 0 THEN Substitute(Sub(s, i + 2, j - 1), d) ELSE Str(<<s[i]>>),
             ReplaceFrom(s, IF j > 0 THEN j + 1 ELSE i + 1, d))

MatchEnd(s, i, j) == IF StartsAt(s, <<"$","{">>, i) /\ j > i + 2 THEN j ELSE 0

ReplaceFrom(s, i, d) ==
    IF i > Len(s) THEN Str(<<>>)
    ELSE ReplaceAt(s, i, MatchEnd(s, i, ClosingBrace(s, i + 2)), d)

\* replaceTemplateVars(template, d): a template that is no string has no
\* replace method (TypeError)
replaceTemplateVars(template, d) ==
    IF template.t # "string" THEN Throw ELSE ReplaceFrom(template.s, 1, d)

OptionalKeys == <<Key.group, Key.icon, Key.url, Key.sound>>

RequiredKeys == <<Key.title, Key.body>>

ParamKeys == RequiredKeys \o OptionalKeys

\* a parameter that is left out when an optional template renders empty
ParamWithoutEmpty(template, optional, d) ==
    IF template = Throw THEN Throw
    ELSE IF optional /\ ~Truthy(template) THEN Undefined
    ELSE IF optional /\ replaceTemplateVars(template, d) = Str(<<>>) THEN Undefined
    ELSE replaceTemplateVars(template, d)

\* title and body: replaceTemplateVars(template, d); the others:
\* template ? replaceTemplateVars(template, d) : undefined
Param(template, optional, d) ==
    IF template = Throw THEN Throw
    ELSE IF optional /\ ~Truthy(template) THEN Undefined
    ELSE replaceTemplateVars(template, d)

\* barkParams before the undefined values are deleted: <<key, value>> in
\* the order of the object literal; a value is Throw when rendering it raised
barkParams(rule, d) ==
    [ i \in 1..Len(ParamKeys) |->
        << ParamKeys[i],
           Param(Member(Member(rule, Key.mapping), ParamKeys[i]),
                 i > Len(RequiredKeys), d) >> ]

\* whether building barkParams raised
Raised(params) == \E i \in 1..Len(params) : params[i][2] = Throw

\* the entries whose value is not undefined
Defined(params) == SelectSeq(params, LAMBDA e : e[2] # Undefined)

HexDigits == <<"0","1","2","3","4","5","6","7","8","9","A","B","C","D","E","F">>

\* the application/x-www-form-urlencoded form of one character
EncodeChar(c) ==
    IF c \in WordChars \cup {"*", "-", "."} THEN <<c>>
    ELSE IF c = " " THEN <<"+">>
    ELSE <<"%", HexDigits[(CodeOf(c) \div 16) + 1], HexDigits[(CodeOf(c) % 16) + 1]>>

RECURSIVE Encode(_)
Encode(s) == IF s = <<>> THEN <<>> ELSE EncodeChar(Head(s)) \o Encode(Tail(s))

\* urlParams.toString()
RECURSIVE QueryString(_)
QueryString(params) ==
    IF params = <<>> THEN <<>>
    ELSE Encode(params[1][1]) \o <<"=">> \o Encode(params[1][2].s)
            \o (IF Len(params) > 1 THEN <<"&">> ELSE <<>>) \o QueryString(Tail(params))

NoCall == [sent |-> FALSE, params |-> <<>>, url |-> <<>>]

\* rule.barkUrl.includes('?'), of a string and of an array
IncludesQuestion(barkUrl) ==
    IF barkUrl.t = "string" THEN Includes(barkUrl.s, <<"?">>)
    ELSE \E e \in barkUrl.f : e[2] = Str(<<"?">>)

\* fetch(barkUrlWithParams): params the defined parameters, base `${rule.barkUrl}`
Fetch(params, barkUrl, base) ==
    IF base = Throw THEN NoCall
    ELSE [ sent |-> TRUE,
           params |-> params,
           url |-> base.s \o (IF IncludesQuestion(barkUrl) THEN <<"&">> ELSE <<"?">>)
                          \o QueryString(params) ]

\* a barkUrl that is neither string nor array has no includes method
Built(params, barkUrl) ==
    IF Raised(params) \/ barkUrl.t \notin {"string", "array"} THEN NoCall
    ELSE Fetch(Defined(params), barkUrl, ToStringJS(barkUrl))

\* sendToBark(rule, d) up to its fetch: the parameters and the URL of the
\* GET it issues, or NoCall when it raised before the fetch
sendToBark(rule, d) == Built(barkParams(rule, d), Member(rule, Key.barkUrl))

-----------------------------------------------------------------------------
(* The rule store and the request handlers.  RULES_STORE is a map from     *)
(* key to the stored rule (Null: no such key); kv.put writes               *)
(* JSON.stringify(rule) and kv.get(key, 'json') parses it back, which      *)
(* gives the rule as it was parsed from the request.  A handler runs from  *)
(* one await on the store or on fetch to the next in one step; the         *)
(* handlers of different requests interleave at these awaits.              *)

\* at most this many requests are in flight at a time
MaxInFlight == 2

\* SpecRace takes no new POST /rules for a key saved this often
MaxSaves == 2

Slots == 1..MaxInFlight

KeyPrefix == <<"r","u","l","e",":">>

\* kv.get(key, 'json')
kvGet(s, key) == IF key \in DOMAIN s THEN s[key] ELSE Null

\* kv.put(key, JSON.stringify(rule))
kvPut(s, key, rule) == [s EXCEPT ![key] = rule]

\* a delete that empties the store
kvDeleteAll(s, key) == [k \in DOMAIN s |-> Null]

\* kv.delete(key)
kvDelete(s, key) == [k \in DOMAIN s |-> IF k = key THEN Null ELSE s[k]]

Idle ==
    [ op |-> "none", pc |-> "idle", key |-> <<>>, body |-> Undefined,
      rule |-> Undefined, call |-> NoCall, outcome |-> "none",
      status |-> 0, success |-> "none" ]

\* a request that was answered: c.json(..., status)
Answered(op, status, success) ==
    [Idle EXCEPT !.op = op, !.pc = "done", !.status = status, !.success = success]

Free(r) == req[r].pc \in {"idle", "done"}

\* the validation of POST /rules: whether no HTTPException is thrown
\* (reading a property of null raises, which the catch answers alike)
Accepted(rule) ==
    /\ rule.t \notin {"throw", "null", "undefined"}
    /\ Truthy(Member(rule, Key.id))
    /\ Truthy(Member(rule, Key.name))
    /\ Truthy(Member(rule, Key.mapping))
    /\ Truthy(Member(rule, Key.barkUrl))

\* the request after validation; text is `${rule.id}` of saveRule's key
Validated(rule, accepted, text) ==
    IF accepted /\ text # Throw
    THEN [Idle EXCEPT !.op = "postRules", !.pc = "put", !.rule = rule,
                      !.key = KeyPrefix \o text.s]
    ELSE Answered("postRules", 400, "none")

\* POST /rules up to await saveRule; body is the parsed request, Throw
\* when it is no JSON
PostRules(r, body) ==
    /\ Free(r)
    /\ req' = [req EXCEPT ![r] =
            Validated(body, Accepted(body), ToStringJS(Member(body, Key.id)))]
    /\ UNCHANGED store

\* saveRule completes; 'Rule saved successfully'
SaveRule(r) ==
    /\ req[r].op = "postRules" /\ req[r].pc = "put"
    /\ store' = kvPut(store, req[r].key, req[r].rule)
    /\ req' = [req EXCEPT ![r] = Answered("postRules", 200, "none")]

\* GET /rules/:id up to await getRuleById
GetRule(r, id) ==
    /\ Free(r)
    /\ req' = [req EXCEPT ![r] =
            [Idle EXCEPT !.op = "getRule", !.pc = "get", !.key = KeyPrefix \o id]]
    /\ UNCHANGED store

\* getRuleById completes: the rule, or 404
GetRuleDone(r) ==
    /\ req[r].op = "getRule" /\ req[r].pc = "get"
    /\ req' = [req EXCEPT ![r] =
            IF Truthy(kvGet(store, req[r].key))
            THEN Answered("getRule", 200, "none")
            ELSE Answered("getRule", 404, "none")]
    /\ UNCHANGED store

\* DELETE /rules/:id up to the await kv.get of deleteRule
DeleteRule(r, id) ==
    /\ Free(r)
    /\ req' = [req EXCEPT ![r] =
            [Idle EXCEPT !.op = "deleteRule", !.pc = "get", !.key = KeyPrefix \o id]]
    /\ UNCHANGED store

\* deleteRule's kv.get completes: false (404) if the key does not exist,
\* else on to await kv.delete
DeleteExists(r) ==
    /\ req[r].op = "deleteRule" /\ req[r].pc = "get"
    /\ req' = [req EXCEPT ![r] =
            IF kvGet(store, req[r].key) = Null
            THEN [Answered("deleteRule", 404, "none") EXCEPT !.key = req[r].key]
            ELSE [req[r] EXCEPT !.pc = "delete"]]
    /\ UNCHANGED store

\* deleteRule's kv.delete completes; 'Rule deleted successfully'
DeleteDone(r) ==
    /\ req[r].op = "deleteRule" /\ req[r].pc = "delete"
    /\ store' = kvDelete(store, req[r].key)
    /\ req' = [req EXCEPT ![r] =
            [Answered("deleteRule", 200, "none") EXCEPT !.key = req[r].key]]

\* requestData.ruleId || c.req.query('ruleId')
Either(a, b) == IF a = Throw THEN Throw ELSE IF Truthy(a) THEN a ELSE b

RuleIdOf(requestData, query) == Either(Member(requestData, Key.ruleId), query)

\* requestData.payload || requestData
PayloadOf(requestData) == Either(Member(requestData, Key.payload), requestData)

\* the request with its rule id: 400 without one ('Rule ID is required',
\* or what the catch answers), else on to the lookup; text is `${ruleId}`
WithRuleId(body, ruleId, text) ==
    IF ruleId = Throw \/ ~Truthy(ruleId) \/ text = Throw
    THEN Answered("push", 400, "none")
    ELSE [Idle EXCEPT !.op = "push", !.pc = "lookup", !.body = body,
                      !.key = KeyPrefix \o text.s]

Received(body, ruleId) == WithRuleId(body, ruleId, ToStringJS(ruleId))

\* POST /push up to await getRuleById; body is the parsed request (Throw
\* when it is no JSON), query the ruleId of the query string or Undefined
Push(r, body, query) ==
    /\ Free(r)
    /\ req' = [req EXCEPT ![r] = Received(body, RuleIdOf(body, query))]
    /\ UNCHANGED store

\* the request after sendToBark ran up to its fetch (500 when it raised
\* before)
AfterSend(q, rule, call) ==
    IF ~call.sent THEN [Answered("push", 500, "false") EXCEPT !.key = q.key]
    ELSE [q EXCEPT !.pc = "fetch", !.rule = rule, !.call = call]

\* sendToBark without the check of the rule
AfterLookupUnchecked(q, rule) ==
    AfterSend(q, rule, sendToBark(rule, PayloadOf(q.body)))

\* the request after getRuleById returned rule: 404, or sendToBark
AfterLookup(q, rule) ==
    IF ~Truthy(rule) THEN [Answered("push", 404, "none") EXCEPT !.key = q.key]
    ELSE AfterSend(q, rule, sendToBark(rule, PayloadOf(q.body)))

\* getRuleById completes
PushLookup(r) ==
    /\ req[r].op = "push" /\ req[r].pc = "lookup"
    /\ req' = [req EXCEPT ![r] = AfterLookup(req[r], kvGet(store, req[r].key))]
    /\ UNCHANGED store

\* the answer to a push whose fetch ended with outcome: "ok" (a 2xx
\* response), "status" (another response) or "error" (fetch rejected)
AfterFetch(q, outcome) ==
    [ Answered("push", IF outcome = "ok" THEN 200 ELSE 500,
                       IF outcome = "ok" THEN "true" ELSE "false")
        EXCEPT !.key = q.key, !.outcome = outcome,
               !.call = [NoCall EXCEPT !.sent = TRUE] ]

\* a push that removes its rule when the delivery failed
PushFetchForgets(r, outcome) ==
    /\ req[r].op = "push" /\ req[r].pc = "fetch"
    /\ req' = [req EXCEPT ![r] = AfterFetch(req[r], outcome)]
    /\ store' = IF outcome = "ok" THEN store
                ELSE [k \in DOMAIN store |-> IF k = req[r].key THEN Null ELSE store[k]]

\* the fetch of sendToBark completes
PushFetch(r, outcome) ==
    /\ req[r].op = "push" /\ req[r].pc = "fetch"
    /\ req' = [req EXCEPT ![r] = AfterFetch(req[r], outcome)]
    /\ UNCHANGED store

-----------------------------------------------------------------------------
(* Spec: the server.  The requests are drawn from the bodies below.        *)

\* https://api.day.app/KEY
UrlPlain == <<"h","t","t","p","s",":","/","/","a","p","i",".","d","a","y",".","a","p","p","/","K","E","Y">>

\* https://api.day.app/KEY?level=active
UrlQuery == <<"h","t","t","p","s",":","/","/","a","p","i",".","d","a","y",".","a","p","p","/","K","E","Y","?","l","e","v","e","l","=","a","c","t","i","v","e">>

\* {"title": "Hi ${n}", "body": "B"}
MapMin == Obj({ <<Key.title, Str(<<"H","i"," ","$","{","n","}">>)>>, <<Key.body, Str(Text.B)>> })

\* {"title": "Build ${build.status}", "body": "${a}", "group": "G",
\*  "icon": "${build.status === 'SUCCESS' ? 'ok.png' : 'fail.png'}",
\*  "url": "${u}", "sound": "${n > -1 ? 'alarm' : 'bell'}"}
MapFull ==
    Obj({ <<Key.title, Str(<<"B","u","i","l","d"," ","$","{","b","u","i","l","d",".","s","t","a","t","u","s","}">>)>>,
          <<Key.body, Str(<<"$","{","a","}">>)>>,
          <<Key.group, Str(<<"G">>)>>,
          <<Key.icon, Str(<<"$","{","b","u","i","l","d",".","s","t","a","t","u","s"," ","=","=","="," ","'","S","U","C","C","E","S","S","'"," ","?"," ","'","o","k",".","p","n","g","'"," ",":"," ","'","f","a","i","l",".","p","n","g","'","}">>)>>,
          <<Key.url, Str(<<"$","{","u","}">>)>>,
          <<Key.sound, Str(<<"$","{","n"," ",">"," ","-","1"," ","?"," ","'","a","l","a","r","m","'"," ",":"," ","'","b","e","l","l","'","}">>)>> })

\* {"title": "T", "body": "B", "group": ""}
MapEmptyGroup ==
    Obj({ <<Key.title, Str(Text.T)>>, <<Key.body, Str(Text.B)>>, <<Key.group, Str(<<>>)>> })

\* {"title": "T"}
MapNoBody == Obj({ <<Key.title, Str(Text.T)>> })

\* {"id": id, "name": "n", "mapping": mapping, "barkUrl": url}
RuleOf(id, mapping, url) ==
    Obj({ <<Key.id, Str(id)>>, <<Key.name, Str(<<"n">>)>>, <<Key.mapping, mapping>>,
          <<Key.barkUrl, Str(url)>> })

\* RuleOf("r1", MapMin, UrlPlain) with one member left out
Without(key) == Obj({ e \in RuleOf(Text.r1, MapMin, UrlPlain).f : e[1] # key })

\* the bodies of POST /rules: rules r1 with each mapping, a rule r2, r1 with
\* id, name, mapping or barkUrl missing or empty, null, a string, and a
\* body that is no JSON
RuleBodies ==
    { RuleOf(Text.r1, m, UrlPlain) : m \in { MapMin, MapFull, MapEmptyGroup, MapNoBody, Obj({}) } }
        \cup { RuleOf(Text.r2, MapMin, UrlQuery) }
        \cup { Without(k) : k \in {Key.id, Key.name, Key.mapping, Key.barkUrl} }
        \cup { RuleOf(<<>>, MapMin, UrlPlain), RuleOf(Text.r1, MapMin, <<>>) }
        \cup { Null, Str(<<"x">>), Throw }

\* the ids of the routes /rules/:id
RouteIds == { Text.r1, Text.r2, Text.zz }

\* {"n": 42, "build": {"status": "SUCCESS"}, "a": "x"}
PayloadBuild ==
    Obj({ <<Key.n, Num(42)>>, <<Key.a, Str(<<"x">>)>>,
          <<Key.build, Obj({ <<Key.status, Str(Text.SUCCESS)>> })>> })

\* the bodies of POST /push: {"ruleId": "r1", "payload": PayloadBuild},
\* {"ruleId": "r2", "n": 42}, {"n": 5, "a": {"toString": 1}}, {}, null,
\* and a body that is no JSON
PushBodies ==
    { Obj({ <<Key.ruleId, Str(Text.r1)>>, <<Key.payload, PayloadBuild>> }),
      Obj({ <<Key.ruleId, Str(Text.r2)>>, <<Key.n, Num(42)>> }),
      Obj({ <<Key.n, Num(5)>>, <<Key.a, Obj({ <<Key.toString, Num(1)>> })>> }),
      Obj({}), Null, Throw }

\* the ruleId of the query string of POST /push
PushQueries == { Undefined, Str(Text.r1), Str(Text.zz) }

Init ==
    /\ store = [k \in { KeyPrefix \o id : id \in RouteIds } |-> Null]
    /\ req = [r \in Slots |-> Idle]
    /\ path = Undefined
    /\ obj = Undefined
    /\ resolved = NotDone
    /\ expression = <<>>
    /\ data = Undefined
    /\ evaluated = NotDone
    /\ log = [ saved |-> [k \in { KeyPrefix \o id : id \in RouteIds } |-> 0],
               deleted |-> [k \in { KeyPrefix \o id : id \in RouteIds } |-> 0] ]

others == <<path, obj, resolved, expression, data, evaluated, log>>

Next ==
    \/ \E r \in Slots, body \in RuleBodies : PostRules(r, body) /\ UNCHANGED others
    \/ \E r \in Slots : SaveRule(r) /\ UNCHANGED others
    \/ \E r \in Slots, id \in RouteIds : GetRule(r, id) /\ UNCHANGED others
    \/ \E r \in Slots : GetRuleDone(r) /\ UNCHANGED others
    \/ \E r \in Slots, id \in RouteIds : DeleteRule(r, id) /\ UNCHANGED others
    \/ \E r \in Slots : DeleteExists(r) /\ UNCHANGED others
    \/ \E r \in Slots : DeleteDone(r) /\ UNCHANGED others
    \/ \E r \in Slots, body \in PushBodies, query \in PushQueries :
            Push(r, body, query) /\ UNCHANGED others
    \/ \E r \in Slots : PushLookup(r) /\ UNCHANGED others
    \/ \E r \in Slots, outcome \in {"ok", "status", "error"} :
            PushFetch(r, outcome) /\ UNCHANGED others

Spec == Init /\ [][Next]_vars

-----------------------------------------------------------------------------
(* Properties of the server.                                               *)

\* the keys of a parameter list, in order
KeysOf(params) == [ i \in 1..Len(params) |-> params[i][1] ]

\* the members a rule must have, all present and non-empty
Complete(rule) ==
    /\ Truthy(Member(rule, Key.id))
    /\ Truthy(Member(rule, Key.name))
    /\ Truthy(Member(rule, Key.barkUrl))
    /\ Truthy(Member(rule, Key.mapping))
    /\ Truthy(Member(Member(rule, Key.mapping), Key.title))
    /\ Truthy(Member(Member(rule, Key.mapping), Key.body))

\* C1: every stored rule has id, name, mapping.title, mapping.body and
\* barkUrl present and non-empty, POST /rules having rejected every other
\* rule without a change of the store.
C1_StoredRulesComplete ==
    \A k \in DOMAIN store : store[k] # Null => Complete(store[k])

\* C2: in POST /push the outbound call comes after the lookup and the
\* rendering: a request starts with the lookup of its rule id and no call,
\* or is answered 400 with no call when it carries no rule id; it gets to
\* its fetch only from the lookup, which returned a rule, with the call
\* rendered from that rule and the payload; a lookup that finds no rule is
\* answered 404 with no rendering and no call; and only a request that was
\* at its fetch has issued a call.
C2_LookupThenRenderThenCall ==
    [][\A r \in Slots : (req'[r] # req[r] /\ req'[r].op = "push") =>
        /\ Free(r) =>
            \/ /\ req'[r].pc = "lookup"
               /\ req'[r].key # KeyPrefix
               /\ ~req'[r].call.sent
            \/ /\ req'[r].pc = "done"
               /\ req'[r].status = 400
               /\ ~req'[r].call.sent
        /\ req'[r].pc = "fetch" =>
            /\ req[r].op = "push" /\ req[r].pc = "lookup"
            /\ kvGet(store, req[r].key) # Null
            /\ req'[r].rule = kvGet(store, req[r].key)
            /\ req'[r].call.sent
            /\ req'[r].call = sendToBark(req'[r].rule, PayloadOf(req[r].body))
        /\ (req[r].pc = "lookup" /\ kvGet(store, req[r].key) = Null) =>
            /\ req'[r].pc = "done"
            /\ req'[r].status = 404
            /\ req'[r].call = NoCall
        /\ (req'[r].pc = "done" /\ req'[r].call.sent) => req[r].pc = "fetch"
    ]_vars

\* a push of {"ruleId": "r1", "payload": {"n": 42, ...}} is at its fetch of
\* https://api.day.app/KEY?title=Hi+42&body=B, and a push that found no
\* rule was answered 404
C2_Witness ==
    /\ \E r \in Slots :
        /\ req[r].op = "push" /\ req[r].pc = "fetch"
        /\ req[r].call.url = UrlPlain \o <<"?","t","i","t","l","e","=","H","i","+","4","2","&","b","o","d","y","=","B">>
    /\ \E r \in Slots :
        /\ req[r].op = "push" /\ req[r].pc = "done" /\ req[r].status = 404

\* C3: DELETE /rules/:id of an id with no stored rule answers 404 and does
\* not change the store; of an id with a stored rule it goes on to remove
\* exactly that rule, answers 200 and leaves every other rule as it was.
C3_DeleteExactlyThatRule ==
    [][\A r \in Slots : (req[r].op = "deleteRule" /\ req'[r] # req[r]) =>
        /\ req[r].pc = "get" =>
            /\ store' = store
            /\ kvGet(store, req[r].key) = Null =>
                    (req'[r].pc = "done" /\ req'[r].status = 404)
            /\ kvGet(store, req[r].key) # Null =>
                    (req'[r].pc = "delete" /\ req'[r].key = req[r].key)
        /\ req[r].pc = "delete" =>
            /\ req'[r].pc = "done" /\ req'[r].status = 200
            /\ kvGet(store', req[r].key) = Null
            /\ \A k \in DOMAIN store : k # req[r].key => store'[k] = store[k]
            /\ DOMAIN store' = DOMAIN store
    ]_vars

\* a delete of r1 succeeded, r1 is gone and r2 is still stored
C3_Witness ==
    /\ \E r \in Slots :
        /\ req[r].op = "deleteRule" /\ req[r].pc = "done"
        /\ req[r].status = 200
        /\ req[r].key = KeyPrefix \o Text.r1
    /\ store[KeyPrefix \o Text.r1] = Null
    /\ store[KeyPrefix \o Text.r2] # Null

\* the keys a rule's mapping makes sendToBark send
SentKeys(rule, present(_, _)) ==
    SelectSeq(ParamKeys,
              LAMBDA k : k \in {Key.title, Key.body} \/ present(Member(rule, Key.mapping), k))

TruthyField(mapping, k) == Truthy(Member(mapping, k))

DefinedField(mapping, k) == HasOwn(mapping, k)

\* C8, for non-empty templates: the keys of the parameters of an outbound call are
\* title, body and those of group, icon, url, sound whose template in the
\* rule's mapping is non-empty, whatever the payload; every value is a text,
\* an empty rendering included.
C8_KeysOfNonEmptyTemplates ==
    \A r \in Slots : (req[r].op = "push" /\ req[r].pc = "fetch") =>
        /\ KeysOf(req[r].call.params) = SentKeys(req[r].rule, TruthyField)
        /\ \A i \in 1..Len(req[r].call.params) : req[r].call.params[i][2].t = "string"

\* a call of a rule with the url template "${u}" and a payload without u
\* carries url with the empty value
C8_Witness ==
    \E r \in Slots :
        /\ req[r].op = "push" /\ req[r].pc = "fetch"
        /\ Member(req[r].rule, Key.mapping) = MapFull
        /\ \E i \in 1..Len(req[r].call.params) :
                req[r].call.params[i] = <<Key.url, Str(<<>>)>>
        /\ Len(req[r].call.params) = Len(ParamKeys)

\* C8, for defined fields: the keys of the parameters of an outbound call are
\* title, body and those of group, icon, url, sound that the rule's mapping
\* defines.
C8_KeysOfDefinedFields ==
    \A r \in Slots : (req[r].op = "push" /\ req[r].pc = "fetch") =>
        KeysOf(req[r].call.params) = SentKeys(req[r].rule, DefinedField)

\* C9: a push that names a stored rule gets to its outbound call: the step
\* that follows the lookup of a stored rule is the fetch, with title and
\* body among the parameters.
C9_StoredRuleReachesCall ==
    [][\A r \in Slots :
        (/\ req[r].op = "push" /\ req[r].pc = "lookup"
         /\ kvGet(store, req[r].key) # Null
         /\ req'[r] # req[r]) =>
            /\ req'[r].pc = "fetch"
            /\ \E i \in 1..Len(req'[r].call.params) : req'[r].call.params[i][1] = Key.title
            /\ \E i \in 1..Len(req'[r].call.params) : req'[r].call.params[i][1] = Key.body
    ]_vars

\* C10: no step of a POST /push changes the store, and a push whose fetch
\* ended with another status than 2xx or with a transport error is answered
\* success: false (500), one whose fetch ended 2xx success: true.
C10_PushKeepsStore ==
    [][\A r \in Slots : (req'[r] # req[r] /\ req'[r].op = "push") =>
        /\ store' = store
        /\ (req[r].op = "push" /\ req[r].pc = "fetch") =>
            /\ req'[r].pc = "done"
            /\ req'[r].outcome \in {"status", "error"} =>
                    (req'[r].success = "false" /\ req'[r].status = 500)
            /\ req'[r].outcome = "ok" =>
                    (req'[r].success = "true" /\ req'[r].status = 200)
    ]_vars

\* a push of rule r1 was answered success: false after a transport error
\* and rule r1 is stored
C10_Witness ==
    \E r \in Slots :
        /\ req[r].op = "push" /\ req[r].pc = "done"
        /\ req[r].outcome = "error" /\ req[r].success = "false"
        /\ req[r].key = KeyPrefix \o Text.r1
        /\ store[req[r].key] # Null

-----------------------------------------------------------------------------
(* SpecRace: the requests that write the store, POST /rules and            *)
(* DELETE /rules/:id, interleaved at their awaits as in Spec, with the     *)
(* answers 'Rule saved successfully' and 'Rule deleted successfully'       *)
(* counted per key in log.  (GET and POST /push do not write the store.)   *)

NextRace ==
    \/ \E r \in Slots, id \in { Text.r1, Text.r2 } :
            /\ log.saved[KeyPrefix \o id] < MaxSaves
            /\ PostRules(r, RuleOf(id, MapMin, UrlPlain))
            /\ UNCHANGED <<path, obj, resolved, expression, data, evaluated, log>>
    \/ \E r \in Slots :
            /\ SaveRule(r)
            /\ log' = [log EXCEPT !.saved[req[r].key] = @ + 1]
            /\ UNCHANGED <<path, obj, resolved, expression, data, evaluated>>
    \/ \E r \in Slots, id \in RouteIds : DeleteRule(r, id) /\ UNCHANGED others
    \/ \E r \in Slots : DeleteExists(r) /\ UNCHANGED others
    \/ \E r \in Slots :
            /\ DeleteDone(r)
            /\ log' = [log EXCEPT !.deleted[req[r].key] = @ + 1]
            /\ UNCHANGED <<path, obj, resolved, expression, data, evaluated>>

SpecRace == Init /\ [][NextRace]_vars

\* C11: under any interleaving of the requests, for each key the number of
\* DELETE requests answered 'Rule deleted successfully' never exceeds the
\* number of POST /rules requests answered 'Rule saved successfully': a
\* delete reports success only if it removed the rule.
C11_DeletesWithinSaves ==
    \A k \in DOMAIN log.saved : log.deleted[k] <= log.saved[k]

-----------------------------------------------------------------------------
(* SpecPath: getValueByPath applied once to a value and a path drawn from  *)
(* bounded sets.                                                           *)

\* {"a": {"b": 1}, "b": "s"}
ObjPlain == Obj({ <<Key.a, Obj({ <<Key.b, Num(1)>> })>>, <<Key.b, Str(<<"s">>)>> })

\* {"a": {"constructor": "x", "__proto__": {"b": 2}, "b": 7},
\*  "constructor": {"a": 1}, "__proto__": {"a": 4}, "prototype": 3, "": {"a": 9}}
\* (JSON.parse makes each of these names an own property)
ObjHostile ==
    Obj({ <<Key.a, Obj({ <<Key.constructor, Str(<<"x">>)>>,
                       <<Key.proto, Obj({ <<Key.b, Num(2)>> })>>,
                       <<Key.b, Num(7)>> })>>,
          <<Key.constructor, Obj({ <<Key.a, Num(1)>> })>>,
          <<Key.proto, Obj({ <<Key.a, Num(4)>> })>>,
          <<Key.prototype, Num(3)>>,
          <<<<>>, Obj({ <<Key.a, Num(9)>> })>> })

\* {"a": [{"b": 5}], "b": null, "0": "zero"}
ObjArray ==
    Obj({ <<Key.a, Arr({ <<Key.zero, Obj({ <<Key.b, Num(5)>> })>> })>>,
          <<Key.b, Null>>,
          <<Key.zero, Str(<<"z","e","r","o">>)>> })

\* [{"a": "x"}]
ArrTop == Arr({ <<Key.zero, Obj({ <<Key.a, Str(<<"x">>)>> })>> })

PathObjects ==
    { ObjPlain, ObjHostile, ObjArray, ArrTop, Obj({}), Null, Str(<<"a","b">>), Num(5) }

PathSegs == { <<>>, Key.a, Key.b, Key.zero, Key.proto, Key.constructor, Key.prototype, LengthKey }

\* the dotted paths of up to MaxSegs segments, two texts that are no path,
\* and two arguments that are no string
PathInputs ==
    { Str(Join(segs, <<".">>)) : segs \in UNION { [1..k -> PathSegs] : k \in 1..MaxSegs } }
        \cup { Str(<<"a","-","b">>), Str(<<"a"," ">>), Undefined, Num(5) }

InitPath ==
    /\ path \in PathInputs
    /\ obj \in PathObjects
    /\ resolved = NotDone
    /\ log = <<>>
    /\ store = <<>>
    /\ req = <<>>
    /\ expression = <<>>
    /\ data = Undefined
    /\ evaluated = NotDone

Resolve ==
    /\ ~resolved.done
    /\ resolved' = Done(getValueByPath(obj, path))
    /\ UNCHANGED <<store, req, path, obj, expression, data, evaluated, log>>

SpecPath == InitPath /\ [][Resolve]_vars

\* every segment names an own property of the object or array reached so far
RECURSIVE OwnChain(_, _)
OwnChain(o, keys) ==
    \/ keys = <<>>
    \/ /\ o.t \in {"object", "array"}
       /\ \E p \in o.f \cup {<<LengthKey, Num(Cardinality(o.f))>>} :
            /\ p[1] = Head(keys)
            /\ p[1] = LengthKey => (o.t = "array" \/ p \in o.f)
            /\ OwnChain(p[2], Tail(keys))

BadSegment(key) == key = <<>> \/ key \in ForbiddenKeys

\* C4: getValueByPath returns a value other than undefined only if every
\* segment of the path is non-empty, is none of __proto__, constructor,
\* prototype, and is an own property of the object or array reached so far;
\* a forbidden or empty segment at any position makes the result undefined;
\* the call never raises.
C4_OnlyOwnSafeSegments ==
    resolved.done =>
        /\ resolved.v # Throw
        /\ resolved.v # Undefined =>
            /\ path.t = "string"
            /\ \A i \in 1..Len(Split(path.s, <<".">>)) :
                    ~BadSegment(Split(path.s, <<".">>)[i])
            /\ OwnChain(obj, Split(path.s, <<".">>))
        /\ (/\ path.t = "string"
            /\ \E i \in 1..Len(Split(path.s, <<".">>)) :
                    BadSegment(Split(path.s, <<".">>)[i]))
            => resolved.v = Undefined

\* a.constructor was resolved against an object whose "a" has an own
\* property "constructor", and the result is undefined
C4_Witness ==
    /\ resolved.done
    /\ obj = ObjHostile
    /\ path = Str(Join(<<Key.a, Key.constructor>>, <<".">>))
    /\ OwnChain(obj, <<Key.a, Key.constructor>>)
    /\ resolved.v = Undefined

-----------------------------------------------------------------------------
(* SpecEval: evaluateExpression applied once to an expression and a data   *)
(* context drawn from bounded sets.  The expressions are the ternaries     *)
(* "l op r ? t : f" over the operand, operator and branch texts below, and *)
(* some texts of other shapes.                                             *)

\* {"n": 20, "a": "ok", "b": "bee", "flag": true, "build": {"status": "SUCCESS"}}
DataSuccess ==
    Obj({ <<Key.n, Num(20)>>, <<Key.a, Str(Text.ok)>>, <<Key.b, Str(<<"b","e","e">>)>>,
          <<Key.flag, Bool(TRUE)>>,
          <<Key.build, Obj({ <<Key.status, Str(Text.SUCCESS)>> })>> })

\* {"n": 5, "a": "no", "flag": false, "build": {"status": "FAILURE"}}
DataFailure ==
    Obj({ <<Key.n, Num(5)>>, <<Key.a, Str(<<"n","o">>)>>, <<Key.flag, Bool(FALSE)>>,
          <<Key.build, Obj({ <<Key.status, Str(<<"F","A","I","L","U","R","E">>)>> })>> })

\* {"n": 10, "a": "", "o": {"toString": 1}, "10": 3}
DataEdge ==
    Obj({ <<Key.n, Num(10)>>, <<Key.a, Str(<<>>)>>,
          <<Key.o, Obj({ <<Key.toString, Num(1)>> })>>, <<Key.ten, Num(3)>> })

\* {"n": "1.5", "a": null, "b": {"n": 1}}
DataText ==
    Obj({ <<Key.n, Str(<<"1",".","5">>)>>, <<Key.a, Null>>,
          <<Key.b, Obj({ <<Key.n, Num(1)>> })>> })

LeftTexts == { Key.n, Key.a, Key.flag, Key.o, <<"b","u","i","l","d",".","s","t","a","t","u","s">> }

\* 10, -5, 1.5, true, 'ok', 'SUCCESS', a
RightTexts ==
    { <<"1","0">>, <<"-","5">>, <<"1",".","5">>, <<"t","r","u","e">>,
      <<"'","o","k","'">>, <<"'","S","U","C","C","E","S","S","'">>, Key.a }

\* 'big' : 'small'
BranchWords == <<<<"'","b","i","g","'">>, <<"'","s","m","a","l","l","'">>>>

\* 'https://example.com/success.png' : 'https://example.com/fail.png'
BranchUrls ==
    << <<"'","h","t","t","p","s",":","/","/","e","x","a","m","p","l","e",".","c","o","m","/","s","u","c","c","e","s","s",".","p","n","g","'">>,
       <<"'","h","t","t","p","s",":","/","/","e","x","a","m","p","l","e",".","c","o","m","/","f","a","i","l",".","p","n","g","'">> >>

\* 'why?' : "no"
BranchQuestion == <<<<"'","w","h","y","?","'">>, <<"\"","n","o","\"">>>>

\* b : n
BranchPaths == <<Key.b, Key.n>>

BranchPairs == { BranchWords, BranchUrls, BranchQuestion, BranchPaths }

ExprParts ==
    [ l : LeftTexts, op : { operators[i] : i \in 1..Len(operators) },
      r : RightTexts, br : BranchPairs ]

\* the text "l op r ? t : f"
Build(p) ==
    p.l \o <<" ">> \o p.op \o <<" ">> \o p.r \o <<" ","?"," ">>
        \o p.br[1] \o <<" ",":"," ">> \o p.br[2]

\* a ? 'big' : 'small' (no operator), a.b (no ternary),
\* a === 'ok' ? n > 1 ? 'x' : 'y' : 'z' (a ternary in a branch), and
\* "  n<-5?b:n  " (no white space around the tokens)
OtherExpressions ==
    { <<"a"," ","?"," ","'","b","i","g","'"," ",":"," ","'","s","m","a","l","l","'">>,
      <<"a",".","b">>,
      <<"a"," ","=","=","="," ","'","o","k","'"," ","?"," ","n"," ",">"," ","1"," ","?"," ","'","x","'"," ",":"," ","'","y","'"," ",":"," ","'","z","'">>,
      <<" "," ","n","<","-","5","?","b",":","n"," "," ">> }

Expressions == { Build(p) : p \in ExprParts } \cup OtherExpressions

InitEval ==
    /\ expression \in Expressions
    /\ data \in { DataSuccess, DataFailure, DataEdge, DataText, Obj({}) }
    /\ evaluated = NotDone
    /\ log = <<>>
    /\ store = <<>>
    /\ req = <<>>
    /\ path = Undefined
    /\ obj = Undefined
    /\ resolved = NotDone

Evaluate ==
    /\ ~evaluated.done
    /\ evaluated' = Done(evaluateExpression(expression, data))
    /\ UNCHANGED <<store, req, path, obj, resolved, expression, data, log>>

SpecEval == InitEval /\ [][Evaluate]_vars

-----------------------------------------------------------------------------
(* Properties of evaluateExpression.                                       *)

\* the value of a literal operand: a number, true or false, or a quoted text
LiteralValue(r) ==
    IF r = <<"t","r","u","e">> THEN Bool(TRUE)
    ELSE IF r = <<"f","a","l","s","e">> THEN Bool(FALSE)
    ELSE IF IsQuoted(r) THEN Str(Unquoted(r))
    ELSE StringToNumber(r)

\* the branch of "l op r ? t : f" that the relation op of the value at path
\* l to the literal r selects
SelectedBranch(p) ==
    IF Truthy(Apply(p.op, getValueByPath(data, Str(p.l)), LiteralValue(p.r), FALSE))
    THEN p.br[1] ELSE p.br[2]

\* the comparison raises nothing
Comparable(p) ==
    Apply(p.op, getValueByPath(data, Str(p.l)), LiteralValue(p.r), FALSE) # Throw

\* 10, -5, 1.5, true
NumberOrBooleanTexts ==
    { <<"1","0">>, <<"-","5">>, <<"1",".","5">>, <<"t","r","u","e">> }

\* ===, !==, ==, !=, >, <
ShortOperators == { operators[i] : i \in {1, 2, 3, 4, 5, 6} }

\* C5: a ternary whose condition compares a path with a number literal or
\* with true or false returns the true branch exactly when the value at the
\* path stands in the stated relation to that number or boolean.
C5_LiteralOperandsAreValues ==
    evaluated.done =>
        \A p \in [ l : LeftTexts, op : ShortOperators, r : NumberOrBooleanTexts,
                   br : {BranchWords} ] :
            (expression = Build(p) /\ Comparable(p)) =>
                evaluated.v = Str(Unquoted(SelectedBranch(p)))

\* >=, <=
LongOperators == { operators[i] : i \in {7, 8} }

\* C6: a condition written with >= or <= is evaluated as greater-or-equal
\* or less-or-equal of its two operands (here the value at a path and the
\* number -5).
C6_LongOperatorsSplitWhole ==
    evaluated.done =>
        \A p \in [ l : LeftTexts, op : LongOperators, r : {<<"-","5">>},
                   br : {BranchWords} ] :
            (expression = Build(p) /\ Comparable(p)) =>
                evaluated.v = Str(Unquoted(SelectedBranch(p)))

\* 'ok', 'SUCCESS'
QuotedTexts == { <<"'","o","k","'">>, <<"'","S","U","C","C","E","S","S","'">> }

\* C7: a ternary whose branches are quoted literals returns the whole
\* unquoted text of the selected branch, whatever characters it has; a
\* branch that is no quoted literal is resolved as a path.
C7_WholeBranchText ==
    evaluated.done =>
        \A p \in [ l : LeftTexts, op : { operators[1], operators[2] }, r : QuotedTexts,
                   br : BranchPairs ] :
            (expression = Build(p) /\ Comparable(p)) =>
                evaluated.v = IF p.br = BranchPaths
                              THEN getValueByPath(data, Str(SelectedBranch(p)))
                              ELSE Str(Unquoted(SelectedBranch(p)))

=============================================================================
